---- MODULE Spec2Model ----
(***************************************************************************)
(* Mental-Health-Habit-Tracker: the journal / habit page.                  *)
(*                                                                         *)
(* The repository holds two variants of the same page:                     *)
(*   src/unnamed/part_000  (variant "part"):   storage.setData catches the *)
(*       store's exception and returns true/false, ids come from           *)
(*       generateId(), add-entry / add-habit roll back on a failed save;   *)
(*   src/script.js         (variant "script"): storage.setData lets the    *)
(*       store's exception escape, ids are Date.now(), no rollback.        *)
(* Both are modelled; the variable `variant` says which one is running.    *)
(*                                                                         *)
(* Modelling conventions                                                   *)
(*   - text is a sequence of one-character strings, so that sanitizeInput  *)
(*     and trim are computed and not assumed;                              *)
(*   - a JSON text (the localStorage item, an export file, an import file) *)
(*     is a record Json: kind "garbage" (does not parse), "null" (the text *)
(*     null) or "obj"; an optional key k of an object is the pair hasK, k; *)
(*   - localStorage is either [kind |-> "absent"] or a Json;               *)
(*   - localStorage.setItem may throw (quota exceeded) at any write.       *)
(***************************************************************************)
EXTENDS Integers, Sequences, FiniteSets, TLC

VARIABLES
    variant,         \* "part" (src/unnamed/part_000) or "script" (src/script.js)
    journalEntries,  \* state.journalEntries
    habits,          \* state.habits
    store,           \* localStorage item 'mindfulMomentsData'
    now,             \* the millisecond clock, Date.now()
    nextUuid,        \* number of generateId() calls so far (variant "part")
    notification,    \* the notification shown last (ui.showNotification)
    loading,         \* the buttons in loading state (ui.setButtonLoading)
    timers,          \* pending setTimeout callbacks that show a notification
    shownHabits,     \* the habit list as last rendered by ui.renderHabits
    shownEntries,    \* the journal log as last rendered by ui.renderJournalEntries
    stats,           \* the statistics as last written by ui.updateStats
    importing,       \* the file a FileReader is reading (storage.importData)
    exported,        \* the file last downloaded by storage.exportData
    ops,             \* number of environment steps so far (bounds the length of a run)
    filters,         \* state.filters
    dropdowns,       \* the values of the three filter selects in the page
    pending,         \* per debounced listener, the due times of its pending timeouts
    burst,           \* history: per debounced listener, its last event and callback runs
    last             \* history: the handler that ran last, and the state it started from

vars == <<variant, journalEntries, habits, store, now, nextUuid, notification,
          loading, timers, shownHabits, shownEntries, stats, importing, exported, ops,
          filters, dropdowns, pending, burst, last>>

filterVars == <<filters, dropdowns, pending, burst>>

(***************************************************************************)
(* Bounds of the model.                                                    *)
(***************************************************************************)
MaxOps == 3
MaxClock == 600
ClockStep == 100
MaxRateHabits == 40
MaxAverageEntries == 20
MaxShownEntries == 3
MaxShownHabits == 2
MaxStatEntries == 3
MaxStatDay == 2
TicksPerDay == 2

(***************************************************************************)
(* Program constants.                                                      *)
(***************************************************************************)
STORAGE_VERSION == 1

DEBOUNCE_DELAY == 300

\* ------------------------------------------------------------------ utils
\* utils.sanitizeInput: every '<' becomes '&lt;' and every '>' becomes '&gt;'.
KeepMarkup(input) == input

sanitizeInput(input) ==
    [i \in 1..Len(input) |->
        IF input[i] = "<" THEN "&lt;"
        ELSE IF input[i] = ">" THEN "&gt;"
        ELSE input[i]]

\* utils.sanitizeInput of src/script.js: the text is written to a div's
\* textContent and read back as innerHTML, which escapes '&' as well.
sanitizeInputScript(input) ==
    [i \in 1..Len(input) |->
        IF input[i] = "&" THEN "&amp;"
        ELSE IF input[i] = "<" THEN "&lt;"
        ELSE IF input[i] = ">" THEN "&gt;"
        ELSE input[i]]

\* String.prototype.trim: leading and trailing white space removed.
NoTrim(s) == s

RECURSIVE TrimLeft(_)
TrimLeft(s) == IF s # <<>> /\ Head(s) = " " THEN TrimLeft(Tail(s)) ELSE s

RECURSIVE TrimRight(_)
TrimRight(s) ==
    IF s # <<>> /\ s[Len(s)] = " " THEN TrimRight(SubSeq(s, 1, Len(s) - 1)) ELSE s

trim(s) == TrimRight(TrimLeft(s))

\* ------------------------------------------------------------------ JSON
NoData == [hasJ |-> FALSE, journalEntries |-> <<>>, hasH |-> FALSE, habits |-> <<>>]

Absent == [kind |-> "absent", hasVersion |-> FALSE, version |-> 0, timestamp |-> 0,
           hasData |-> FALSE, data |-> NoData]

JsonGarbage == [Absent EXCEPT !.kind = "garbage"]

JsonNull == [Absent EXCEPT !.kind = "null"]

JsonObj(hasV, v, t, hasD, d) ==
    [kind |-> "obj", hasVersion |-> hasV, version |-> v, timestamp |-> t,
     hasData |-> hasD, data |-> d]

Data(hasJ, J, hasH, H) ==
    [hasJ |-> hasJ, journalEntries |-> J, hasH |-> hasH, habits |-> H]

\* A collection that is a JSON object and no array, such as
\* { "notArray": true }. It is kept in a sequence of its own so that it can
\* stand where a list of entries or of habits stands.
NotArray == <<[notArray |-> TRUE]>>

\* Array.isArray of a collection.
isArray(collection) == collection # NotArray

\* ------------------------------------------------------------------ storage
\* storage.getData: the parsed item when it parses and carries the supported
\* version, otherwise null. The result is [some, doc].
Null == [some |-> FALSE, doc |-> JsonNull]

GetDataAnyVersion(item) ==
    IF item.kind = "obj" THEN [some |-> TRUE, doc |-> item] ELSE Null

getData(item) ==
    IF item.kind = "absent" THEN Null                \* !rawData
    ELSE IF item.kind = "garbage" THEN Null          \* JSON.parse throws, caught
    ELSE IF item.kind = "null" THEN Null             \* null.version throws, caught
    ELSE IF item.hasVersion /\ item.version = STORAGE_VERSION
         THEN [some |-> TRUE, doc |-> item]
         ELSE Null

\* getData()?.data || {}
CurrentData(item) ==
    LET g == getData(item)
    IN  IF g.some /\ g.doc.hasData THEN g.doc.data ELSE NoData

\* storage.getJournalEntries / storage.getHabits: stored?.data?.x || []
getJournalEntries(item) ==
    LET g == getData(item)
    IN  IF g.some /\ g.doc.hasData /\ g.doc.data.hasJ THEN g.doc.data.journalEntries
        ELSE <<>>

getHabits(item) ==
    LET g == getData(item)
    IN  IF g.some /\ g.doc.hasData /\ g.doc.data.hasH THEN g.doc.data.habits
        ELSE <<>>

\* app.loadData: the two getters; src/unnamed/part_000 takes an empty list for
\* what is no array, src/script.js takes whatever the getter returns.
loadData(item) ==
    LET entries == getJournalEntries(item)
        hs == getHabits(item)
    IN  IF variant = "part"
        THEN [journalEntries |-> IF isArray(entries) THEN entries ELSE <<>>,
              habits |-> IF isArray(hs) THEN hs ELSE <<>>]
        ELSE [journalEntries |-> entries, habits |-> hs]

\* storage.setData: the item written when localStorage.setItem accepts it.
setData(data, t) == JsonObj(TRUE, STORAGE_VERSION, t, TRUE, data)

\* storage.setJournalEntries / storage.setHabits: { ...currentData, x: value }
setJournalEntries(item, entries, t) ==
    setData([CurrentData(item) EXCEPT !.hasJ = TRUE, !.journalEntries = entries], t)

SetHabitsNoSpread(item, hs, t) ==
    setData(Data(FALSE, <<>>, TRUE, hs), t)

setHabits(item, hs, t) ==
    setData([CurrentData(item) EXCEPT !.hasH = TRUE, !.habits = hs], t)

\* storage.exportData: the text of the downloaded file, JSON.stringify(getData()).
exportFile(item) ==
    LET g == getData(item) IN IF g.some THEN g.doc ELSE JsonNull

\* storage.importData, the test of reader.onload: JSON.parse succeeds and
\* data.version && data.data is truthy. On the text null, data.version throws.
ImportAcceptsDataOnly(file) == file.kind = "obj" /\ file.hasData

importAccepts(file) ==
    /\ file.kind = "obj"
    /\ file.hasVersion /\ file.version # 0
    /\ file.hasData

\* ------------------------------------------------------------------ statistics
\* The calendar day of a timestamp (Date.prototype.toDateString).
Day(ts) == ts \div TicksPerDay

\* [...entries].sort((a, b) => b.timestamp - a.timestamp): a stable sort.
RECURSIVE InsertNewestFirst(_, _)
InsertNewestFirst(e, sorted) ==
    IF sorted = <<>> THEN <<e>>
    ELSE IF Head(sorted).timestamp >= e.timestamp
         THEN <<Head(sorted)>> \o InsertNewestFirst(e, Tail(sorted))
         ELSE <<e>> \o sorted

RECURSIVE SortNewestFirst(_)
SortNewestFirst(entries) ==
    IF entries = <<>> THEN <<>>
    ELSE LET rest == SortNewestFirst(SubSeq(entries, 1, Len(entries) - 1))
         IN  InsertNewestFirst(entries[Len(entries)], rest)

\* ui.updateStats, the streak loop: entry i is compared with the day under
\* check; a match counts and moves the day under check back by one.
RECURSIVE StreakLoop(_, _, _, _)
StreakLoop(sortedEntries, i, checkDay, streak) ==
    IF i > Len(sortedEntries) THEN streak
    ELSE IF Day(sortedEntries[i].timestamp) = checkDay
         THEN StreakLoop(sortedEntries, i + 1, checkDay - 1, streak + 1)
         ELSE streak

currentStreak(entries, t) == StreakLoop(SortNewestFirst(entries), 1, Day(t), 0)

\* Math.round((completedHabits / habits.length) * 100), 0 without habits.
CompletedCount(hs) == Cardinality({ i \in 1..Len(hs) : hs[i].completed })

\* The arithmetic is that of IEEE 754 doubles. A double is [m, e]: 53 bits m,
\* most significant first, and the exponent e of the last bit, its value being
\* m * 2^e. Bits are kept in sequences, 53 of them not fitting an integer of
\* the checker.
MantissaBits == 53

Zeros(k) == [i \in 1..k |-> 0]

\* 2^k modulo n, by squaring.
RECURSIVE Pow2Mod(_, _)
Pow2Mod(k, n) ==
    IF k = 0 THEN 1 % n
    ELSE IF k % 2 = 0
         THEN LET half == Pow2Mod(k \div 2, n) IN (half * half) % n
         ELSE (2 * Pow2Mod(k - 1, n)) % n

\* The remainder of the long division r / n (0 <= r < n) after k bits of the
\* quotient, which is r * 2^k modulo n.
RemainderAfter(r, n, k) == (r * Pow2Mod(k, n)) % n

\* The first k bits of the binary expansion of r / n, and the remainder left
\* after them: bit i is one when twice the remainder before it reaches n.
QuotientBits(r, n, k) ==
    [bits |-> [i \in 1..k |-> IF 2 * RemainderAfter(r, n, i - 1) >= n THEN 1 ELSE 0],
     rem |-> RemainderAfter(r, n, k)]

\* The number of zero bits in front of the first one bit of r / n (0 < r < n).
RECURSIVE LeadingZeros(_, _)
LeadingZeros(r, n) == IF 2 * r >= n THEN 0 ELSE 1 + LeadingZeros(2 * r, n)

\* a + b for bit sequences of one length; the result is one bit longer. The
\* carry out of bit i is one when some bit j from i on has both bits set and
\* every bit between i and j has exactly one set.
CarryOut(a, b, i) ==
    \E j \in i..Len(a) :
        /\ a[j] = 1 /\ b[j] = 1
        /\ \A k \in i..(j - 1) : a[k] + b[k] = 1

AddBits(a, b) ==
    [i \in 1..(Len(a) + 1) |->
        IF i = 1 THEN (IF CarryOut(a, b, 1) THEN 1 ELSE 0)
        ELSE (a[i - 1] + b[i - 1] + (IF CarryOut(a, b, i) THEN 1 ELSE 0)) % 2]

RECURSIVE StripZeros(_)
StripZeros(bits) ==
    IF bits # <<>> /\ Head(bits) = 0 THEN StripZeros(Tail(bits)) ELSE bits

\* Round to nearest, ties to even: `bits` (first bit one, at least 54 of them)
\* with last-bit exponent e, and `sticky` telling whether anything nonzero
\* lies beyond them, becomes a double.
RoundToDouble(bits, e, sticky) ==
    LET kept == SubSeq(bits, 1, MantissaBits)
        guard == bits[MantissaBits + 1]
        beyond == sticky \/ \E i \in (MantissaBits + 2)..Len(bits) : bits[i] = 1
        up == guard = 1 /\ (beyond \/ kept[MantissaBits] = 1)
        plusOne == AddBits(kept, Zeros(MantissaBits - 1) \o <<1>>)
        eKept == e + (Len(bits) - MantissaBits)
    IN  IF ~up THEN [m |-> kept, e |-> eKept]
        ELSE IF plusOne[1] = 1
             THEN [m |-> SubSeq(plusOne, 1, MantissaBits), e |-> eKept + 1]
             ELSE [m |-> Tail(plusOne), e |-> eKept]

\* completedHabits / habits.length as a double, for 0 < c < n.
Quotient(c, n) ==
    LET z == LeadingZeros(c, n)
        q == QuotientBits(c, n, z + MantissaBits + 1)
    IN  RoundToDouble(SubSeq(q.bits, z + 1, z + MantissaBits + 1),
                      0 - (z + MantissaBits + 1), q.rem # 0)

\* d * 100 as a double: 100 d = 64 d + 32 d + 4 d, exactly, then rounded.
Times100(d) ==
    LET d64 == Zeros(1) \o d.m \o Zeros(6)
        d32 == Zeros(2) \o d.m \o Zeros(5)
        d4 == Zeros(6) \o d.m \o Zeros(2)
        product == StripZeros(AddBits(AddBits(d64, d32), d4))
    IN  RoundToDouble(product, d.e, FALSE)

RECURSIVE BitsValue(_)
BitsValue(bits) ==
    IF bits = <<>> THEN 0
    ELSE 2 * BitsValue(SubSeq(bits, 1, Len(bits) - 1)) + bits[Len(bits)]

\* Math.round of a double below 2^31: floor(x + 0.5), computed exactly.
MathRound(d) ==
    LET fractionBits == 0 - d.e
        wholeBits == MantissaBits - fractionBits
    IN  IF fractionBits <= 0 THEN BitsValue(d.m \o Zeros(d.e))
        ELSE IF wholeBits < 0 THEN 0
        ELSE BitsValue(SubSeq(d.m, 1, wholeBits)) + d.m[wholeBits + 1]

\* Math.round((c / n) * 100) for 0 <= c <= n, n > 0.
DoubleRate(c, n) ==
    IF c = 0 THEN 0
    ELSE IF c = n THEN 100
    ELSE MathRound(Times100(Quotient(c, n)))

\* 100 c / n lies exactly half way between two integers.
IsTie(c, n) == (200 * c) % n = 0 /\ ((200 * c) \div n) % 2 = 1

\* The integer nearest to 100 c / n, a tie going up.
Nearest(c, n) == (200 * c + n) \div (2 * n)

\* ui.updateStats, the completion rate. Away from a tie 100 c / n is at least
\* 1 / (2 n) from the nearest half, far more than the error of the doubles,
\* and the result is the nearest integer; at a tie the doubles decide.
completionRate(hs) ==
    LET c == CompletedCount(hs)
        n == Len(hs)
    IN  IF n > 0
        THEN IF IsTie(c, n) THEN DoubleRate(c, n) ELSE Nearest(c, n)
        ELSE 0

\* utils.calculateMoodAverage: '-' without entries, else (sum / n).toFixed(1),
\* kept in tenths.
moodValues(mood) ==
    CASE mood = "Sad" -> 1
      [] mood = "Stressed" -> 2
      [] mood = "Anxious" -> 3
      [] mood = "Neutral" -> 4
      [] mood = "Grateful" -> 5
      [] mood = "Happy" -> 6
      [] mood = "Excited" -> 7
      [] OTHER -> 4

RECURSIVE MoodSum(_)
MoodSum(entries) ==
    IF entries = <<>> THEN 0 ELSE moodValues(Head(entries).mood) + MoodSum(Tail(entries))

\* The number of bits of the whole part of sum / n, which lies in 1..7.
WholePartBits(q) == IF q >= 4 THEN 3 ELSE IF q >= 2 THEN 2 ELSE 1

\* The side on which the double sum / n lies of the exact quotient: 0 when the
\* quotient fits the mantissa, else 1 when the first bit beyond the mantissa
\* rounds it up and -1 when it rounds it down.
AverageError(sum, n) ==
    LET kept == MantissaBits - WholePartBits(sum \div n)
        left == RemainderAfter(sum % n, n, kept)
    IN  IF left = 0 THEN 0
        ELSE IF 2 * left > n THEN 1
        ELSE IF 2 * left < n THEN 0 - 1
        ELSE IF 2 * RemainderAfter(sum % n, n, kept - 1) >= n THEN 1 ELSE 0 - 1

\* 10 sum / n lies exactly half way between two integers.
IsHalfTenth(sum, n) == (20 * sum) % n = 0 /\ ((20 * sum) \div n) % 2 = 1

\* average.toFixed(1) in tenths: the integer t with t / 10 nearest to the
\* double, the larger one of two. Away from a half tenth the quotient is at
\* least 1 / (20 n) from the nearest one, far more than the error of the
\* double; at a half tenth the side of the double decides.
toFixed1(sum, n) ==
    IF ~IsHalfTenth(sum, n) THEN (20 * sum + n) \div (2 * n)
    ELSE IF AverageError(sum, n) >= 0 THEN (10 * sum) \div n + 1
    ELSE (10 * sum) \div n

calculateMoodAverage(entries) ==
    IF Len(entries) = 0 THEN [dash |-> TRUE, tenths |-> 0]
    ELSE [dash |-> FALSE, tenths |-> toFixed1(MoodSum(entries), Len(entries))]

Unrendered ==
    [rendered |-> FALSE, totalEntries |-> 0, currentStreak |-> 0,
     completionRate |-> 0, moodAverage |-> [dash |-> TRUE, tenths |-> 0]]

updateStats(entries, hs, t) ==
    [rendered |-> TRUE,
     totalEntries |-> Len(entries),
     currentStreak |-> currentStreak(entries, t),
     completionRate |-> completionRate(hs),
     moodAverage |-> calculateMoodAverage(entries)]

\* ------------------------------------------------------------------ rendering
\* ui.renderHabits: the habits passing the filter, each with the id its
\* listeners are bound to and its checkbox state (disabled when completed).
renderHabits(hs, filter) ==
    LET Keep(h) == IF filter = "active" THEN ~h.completed
                   ELSE IF filter = "completed" THEN h.completed
                   ELSE TRUE
        kept == SelectSeq(hs, Keep)
    IN  [i \in 1..Len(kept) |-> [id |-> kept[i].id, completed |-> kept[i].completed]]

\* The comparator of ui.renderJournalEntries.
CompareNewestOnly(a, b, sortOrder) == b.timestamp - a.timestamp

compareEntries(a, b, sortOrder) ==
    IF sortOrder = "newest" THEN b.timestamp - a.timestamp ELSE a.timestamp - b.timestamp

\* Array.prototype.sort with that comparator. The sort is stable (ECMAScript
\* 2019), so the result is the one of an insertion sort that puts each element
\* behind every element the comparator does not place after it.
RECURSIVE InsertSorted(_, _, _)
InsertSorted(sorted, entry, sortOrder) ==
    IF sorted = <<>> THEN <<entry>>
    ELSE IF compareEntries(Head(sorted), entry, sortOrder) <= 0
         THEN <<Head(sorted)>> \o InsertSorted(Tail(sorted), entry, sortOrder)
         ELSE <<entry>> \o sorted

RECURSIVE sort(_, _)
sort(entries, sortOrder) ==
    IF entries = <<>> THEN <<>>
    ELSE InsertSorted(sort(SubSeq(entries, 1, Len(entries) - 1), sortOrder),
                      entries[Len(entries)], sortOrder)

\* ui.renderJournalEntries: a copy of the entries, filtered by mood unless the
\* filter is 'all', sorted, and appended to the log in that order (an empty
\* result shows the empty state and no entry).
renderJournalEntries(entries, moodFilter, sortOrder) ==
    LET Keep(entry) == entry.mood = moodFilter
        filteredEntries == IF moodFilter # "all" THEN SelectSeq(entries, Keep) ELSE entries
    IN  sort(filteredEntries, sortOrder)

\* ui.showNotification replaces the notification showing.
Note(type, msg) == [type |-> type, msg |-> msg]

NoNote == Note("none", "")

\* ------------------------------------------------------------------ ids
\* generateId (variant "part"): a random version-4 UUID. The n-th call is
\* modelled as the fresh value UuidBase + n: 122 random bits are taken never
\* to repeat. Date.now() ids (variant "script") are the clock values
\* 0..MaxOps, and ids of imported files are below UuidBase as well.
UuidBase == 100

generateId(n) == UuidBase + n

\* ------------------------------------------------------------------ app.saveData
\* Variant "part": both writes are attempted, each returns true or false.
saveDataPart(item, entries, hs, t, ok1, ok2) ==
    LET s1 == IF ok1 THEN setJournalEntries(item, entries, t) ELSE item
        s2 == IF ok2 THEN setHabits(s1, hs, t) ELSE s1
    IN  [store |-> s2, success |-> ok1 /\ ok2]

\* Variant "script": a rejected write throws out of saveData, so the second
\* write is attempted only after the first was accepted.
saveDataScript(item, entries, hs, t, ok1, ok2) ==
    LET s1 == setJournalEntries(item, entries, t)
        s2 == setHabits(s1, hs, t)
    IN  [store |-> IF ~ok1 THEN item ELSE IF ~ok2 THEN s1 ELSE s2,
         success |-> ok1 /\ ok2]

\* ------------------------------------------------------------------ inputs
\* The mood select: no selection, or one of the options.
MoodInputs == {"", "Happy", "Sad"}

\* The journal textarea and the habit input.
JournalInputs == {<<"<", "&">>}

HabitInputs == {<<" ">>, <<" ", "&", ">">>}

\* Entities found in import files.
FileEntry == [id |-> 91, mood |-> "Happy", journal |-> <<"x">>, timestamp |-> 0]

FileHabitA == [id |-> 92, text |-> <<"w">>, completed |-> TRUE, createdAt |-> 0]

FileHabitB == [id |-> 93, text |-> <<"v">>, completed |-> FALSE, createdAt |-> 1]

\* Files the user may pick for import: unparsable text; an object without
\* version; an object without data; a foreign version with data (and no
\* habits); a supported document.
FileNoVersion == JsonObj(FALSE, 0, 0, TRUE, Data(TRUE, <<FileEntry>>, TRUE, <<FileHabitA>>))

FileNoData == JsonObj(TRUE, STORAGE_VERSION, 0, FALSE, NoData)

FileForeign == JsonObj(TRUE, STORAGE_VERSION + 1, 0, TRUE, Data(TRUE, <<FileEntry>>, FALSE, <<>>))

FileValid ==
    JsonObj(TRUE, STORAGE_VERSION, 0, TRUE,
            Data(TRUE, <<FileEntry>>, TRUE, <<FileHabitA, FileHabitB>>))

ImportFiles == {JsonGarbage, FileNoVersion, FileNoData, FileForeign, FileValid}

\* A file of the supported version whose journalEntries is an object. It is
\* imported only where named (SpecAccepted), and only into
\* src/unnamed/part_000, whose loadData tests Array.isArray.
FileNotArray ==
    JsonObj(TRUE, STORAGE_VERSION, 0, TRUE, Data(TRUE, NotArray, TRUE, <<FileHabitA>>))

\* What an earlier session left: one entry and one habit, made before time 0.
OldEntry == [id |-> -2, mood |-> "Sad", journal |-> <<"y">>, timestamp |-> -2]

OldHabit == [id |-> -1, text |-> <<"z">>, completed |-> FALSE, createdAt |-> -1]

OldDocument ==
    JsonObj(TRUE, STORAGE_VERSION, -1, TRUE, Data(TRUE, <<OldEntry>>, TRUE, <<OldHabit>>))

\* What localStorage may hold when the page is first opened: nothing, a
\* document of a foreign version, or the document of an earlier session.
InitStores == {Absent, FileForeign, OldDocument}

NoFile == [has |-> FALSE, file |-> JsonNull, fromExport |-> FALSE,
           expJ |-> <<>>, expH |-> <<>>]

NoExport == [has |-> FALSE, file |-> JsonNull, journalEntries |-> <<>>, habits |-> <<>>]

\* ------------------------------------------------------------------ history
\* The handler that ran last: its outcome, whether the store rejected one of
\* its writes, and the state it started from; for the end of an import, also
\* whether the handler before it was a user action that changed the
\* collections, which then ran while the file was being read.
Hist(op, result, rejected, id, file) ==
    [op |-> op, result |-> result, rejected |-> rejected, id |-> id, file |-> file,
     mood |-> "", text |-> <<>>,
     duringRead |-> /\ op = "import"
                    /\ last.op \in {"submit", "addHabit", "toggle", "delete", "clear"}
                    /\ last.result = "ok",
     preJ |-> journalEntries, preH |-> habits, preStore |-> store,
     fromExport |-> op = "import" /\ importing.fromExport,
     expJ |-> IF op = "import" THEN importing.expJ ELSE <<>>,
     expH |-> IF op = "import" THEN importing.expH ELSE <<>>]

\* After a step that is no handler of the collections (a timer, the clock, a
\* dismissed notification) there is nothing to remember.
Idle(op) ==
    [op |-> op, result |-> "ok", rejected |-> FALSE, id |-> 0, file |-> JsonNull,
     mood |-> "", text |-> <<>>, duringRead |-> FALSE,
     preJ |-> <<>>, preH |-> <<>>, preStore |-> Absent,
     fromExport |-> FALSE, expJ |-> <<>>, expH |-> <<>>]

\* The history of a handler that read the form: the mood selected and the
\* text typed are remembered as well.
WithInput(h, mood, text) == [h EXCEPT !.mood = mood, !.text = text]

\* A downloaded file is followed until the collections or the store next
\* change; importing an older download is importing one more file.
KeepExport ==
    exported' = IF <<journalEntries', habits', store'>> = <<journalEntries, habits, store>>
                THEN exported ELSE NoExport

\* A step of the environment (a click, a submit, a file choice, reopening the
\* page, the clock moving on) counts towards the length of the run; what the
\* page does by itself (a timer callback, the file reader delivering) does not.
EnvStep == ops < MaxOps /\ ops' = ops + 1

Background == UNCHANGED ops

\* ------------------------------------------------------------------ filters
\* state.filters as the script creates it, and the three selects showing it.
InitialFilters == [habitStatus |-> "all", mood |-> "all", sort |-> "newest"]

\* app.renderUI, its first three lines: state.filters is written back into
\* the selects.
DropdownsOf(f) ==
    [habitFilter |-> f.habitStatus, moodFilter |-> f.mood, sortOrder |-> f.sort]

\* The listeners wrapped in utils.debounce, named by the select they listen
\* to, and the key of state.filters each callback assigns.
DebouncedControls == {"moodFilter", "sortOrder"}

FilterKey(c) == IF c = "moodFilter" THEN "mood" ELSE "sort"

\* The options of the selects.
MoodFilterOptions == {"all", "Happy", "Sad"}

SortOrderOptions == {"newest", "oldest"}

HabitFilterOptions == {"all", "active", "completed"}

\* utils.debounce, the returned function: clearTimeout(timeout) and
\* timeout = setTimeout(later, wait). `dues` holds the due times of the
\* closure's timeouts that have neither run nor been cleared.
DebounceNoClear(dues, t) == dues \cup {t + DEBOUNCE_DELAY}

debounce(dues, t) == {t + DEBOUNCE_DELAY}

NoBurst == [lastAt |-> -1, runs |-> 0, firedAt |-> -1, superseded |-> FALSE, value |-> ""]

FiltersAtStart ==
    /\ filters = InitialFilters
    /\ dropdowns = DropdownsOf(InitialFilters)
    /\ pending = [c \in DebouncedControls |-> {}]
    /\ burst = [c \in DebouncedControls |-> NoBurst]

\* ------------------------------------------------------------------ app.init
\* The page after app.init on a store holding `item`: loadData, renderUI, and
\* the welcome notification scheduled when there is nothing to show.
Boot(item, t) ==
    [journalEntries |-> loadData(item).journalEntries,
     habits |-> loadData(item).habits,
     timers |-> IF loadData(item).journalEntries = <<>> /\ loadData(item).habits = <<>>
                THEN {"welcome"} ELSE {},
     shownHabits |-> renderHabits(loadData(item).habits, "all"),
     shownEntries |-> renderJournalEntries(loadData(item).journalEntries, "all", "newest"),
     stats |-> updateStats(loadData(item).journalEntries, loadData(item).habits, t)]

Init ==
    /\ variant \in {"part", "script"}
    /\ store \in InitStores
    /\ now = 0
    /\ nextUuid = 0
    /\ journalEntries = Boot(store, now).journalEntries
    /\ habits = Boot(store, now).habits
    /\ timers = Boot(store, now).timers
    /\ shownHabits = Boot(store, now).shownHabits
    /\ shownEntries = Boot(store, now).shownEntries
    /\ stats = Boot(store, now).stats
    /\ notification = NoNote
    /\ loading = {}
    /\ importing = NoFile
    /\ exported = NoExport
    /\ ops = 0
    /\ last = Idle("init")
    /\ FiltersAtStart

\* The page is closed and opened again: app.init on the store as it is.
Reload ==
    /\ EnvStep
    /\ journalEntries' = Boot(store, now).journalEntries
    /\ habits' = Boot(store, now).habits
    /\ timers' = Boot(store, now).timers
    /\ shownHabits' = Boot(store, now).shownHabits
    /\ shownEntries' = Boot(store, now).shownEntries
    /\ stats' = Boot(store, now).stats
    /\ notification' = NoNote
    /\ loading' = {}
    /\ importing' = NoFile
    /\ last' = Hist("reload", "ok", FALSE, 0, JsonNull)
    /\ UNCHANGED <<variant, store, now, nextUuid>>
    /\ KeepExport
    /\ UNCHANGED filterVars

\* ------------------------------------------------------------------ add entry
\* app.handleMoodSubmit, variant "part". The submit button is enabled whenever
\* a handler is not running, since the handler clears the loading state itself.
HandleMoodSubmitPart(mood, journal, ok1, ok2) ==
    /\ EnvStep
    /\ variant = "part"
    /\ "submitBtn" \notin loading
    /\ IF mood = ""
       THEN /\ notification' = Note("warning", "Please select a mood before saving")
            /\ last' = WithInput(Hist("submit", "invalid", FALSE, 0, JsonNull), mood, journal)
            /\ UNCHANGED <<journalEntries, store, nextUuid, shownHabits, shownEntries, stats>>
       ELSE LET entry == [id |-> generateId(nextUuid), mood |-> mood,
                          journal |-> sanitizeInput(journal), timestamp |-> now]
                unshifted == <<entry>> \o journalEntries
                saved == saveDataPart(store, unshifted, habits, now, ok1, ok2)
            IN  /\ nextUuid' = nextUuid + 1
                /\ store' = saved.store
                /\ IF saved.success
                   THEN /\ journalEntries' = unshifted
                        /\ shownHabits' = renderHabits(habits, "all")
                        /\ shownEntries' = renderJournalEntries(unshifted, filters.mood, filters.sort)
                        /\ stats' = updateStats(unshifted, habits, now)
                        /\ notification' = Note("success", "Journal entry saved successfully!")
                   ELSE /\ journalEntries' = Tail(unshifted)
                        /\ notification' = Note("danger", "Failed to save entry. Please try again.")
                        /\ UNCHANGED <<shownHabits, shownEntries, stats>>
                /\ last' = WithInput(Hist("submit", IF saved.success THEN "ok" ELSE "saveFailed",
                                          ~saved.success, entry.id, JsonNull), mood, journal)
    /\ UNCHANGED <<variant, habits, now, loading, timers, importing>>
    /\ KeepExport
    /\ UNCHANGED filterVars

\* app.handleMoodSubmit, variant "script". validateForm returns without a
\* notification when no mood is selected. A rejected write throws out of the
\* handler: the entry stays in memory, nothing is rendered and the button
\* stays in loading state. A disabled submit button cannot submit the form.
HandleMoodSubmitScript(mood, journal, ok1, ok2) ==
    /\ EnvStep
    /\ variant = "script"
    /\ "submitBtn" \notin loading
    /\ IF mood = ""
       THEN /\ last' = WithInput(Hist("submit", "invalid", FALSE, 0, JsonNull), mood, journal)
            /\ UNCHANGED <<journalEntries, store, loading, timers, shownHabits, shownEntries, stats>>
       ELSE LET entry == [id |-> now, mood |-> mood,
                          journal |-> sanitizeInputScript(journal), timestamp |-> now]
                unshifted == <<entry>> \o journalEntries
                saved == saveDataScript(store, unshifted, habits, now, ok1, ok2)
            IN  /\ journalEntries' = unshifted
                /\ store' = saved.store
                /\ loading' = loading \cup {"submitBtn"}
                /\ IF saved.success
                   THEN /\ shownHabits' = renderHabits(habits, "all")
                        /\ shownEntries' = renderJournalEntries(unshifted, filters.mood, filters.sort)
                        /\ stats' = updateStats(unshifted, habits, now)
                        /\ timers' = timers \cup {"entrySaved"}
                   ELSE UNCHANGED <<shownHabits, shownEntries, stats, timers>>
                /\ last' = WithInput(Hist("submit", IF saved.success THEN "ok" ELSE "threw",
                                          ~saved.success, entry.id, JsonNull), mood, journal)
    /\ UNCHANGED <<variant, habits, now, nextUuid, notification, importing>>
    /\ KeepExport
    /\ UNCHANGED filterVars

\* ------------------------------------------------------------------ add habit
\* app.addHabit, variant "part". Reached by the button and by the Enter key.
AddHabitPart(text, ok1, ok2) ==
    /\ EnvStep
    /\ variant = "part"
    /\ IF trim(text) = <<>>
       THEN /\ notification' = Note("warning", "Please enter a habit name")
            /\ last' = WithInput(Hist("addHabit", "invalid", FALSE, 0, JsonNull), "", text)
            /\ UNCHANGED <<habits, store, nextUuid, shownHabits, shownEntries, stats>>
       ELSE LET habit == [id |-> generateId(nextUuid), text |-> sanitizeInput(trim(text)),
                          completed |-> FALSE, createdAt |-> now]
                pushed == Append(habits, habit)
                saved == saveDataPart(store, journalEntries, pushed, now, ok1, ok2)
            IN  /\ nextUuid' = nextUuid + 1
                /\ store' = saved.store
                /\ IF saved.success
                   THEN /\ habits' = pushed
                        /\ shownHabits' = renderHabits(pushed, "all")
                        /\ shownEntries' = renderJournalEntries(journalEntries, filters.mood, filters.sort)
                        /\ stats' = updateStats(journalEntries, pushed, now)
                        /\ notification' = Note("success", "Habit added successfully!")
                   ELSE /\ habits' = SubSeq(pushed, 1, Len(pushed) - 1)
                        /\ notification' = Note("danger", "Failed to save habit. Please try again.")
                        /\ UNCHANGED <<shownHabits, shownEntries, stats>>
                /\ last' = WithInput(Hist("addHabit", IF saved.success THEN "ok" ELSE "saveFailed",
                                          ~saved.success, habit.id, JsonNull), "", text)
    /\ UNCHANGED <<variant, journalEntries, now, loading, timers, importing>>
    /\ KeepExport
    /\ UNCHANGED filterVars

\* app.addHabit, variant "script".
AddHabitScript(text, ok1, ok2) ==
    /\ EnvStep
    /\ variant = "script"
    /\ IF trim(text) = <<>>
       THEN /\ notification' = Note("warning", "Please enter a habit name")
            /\ last' = WithInput(Hist("addHabit", "invalid", FALSE, 0, JsonNull), "", text)
            /\ UNCHANGED <<habits, store, loading, timers, shownHabits, shownEntries, stats>>
       ELSE LET habit == [id |-> now, text |-> sanitizeInputScript(trim(text)),
                          completed |-> FALSE, createdAt |-> now]
                pushed == Append(habits, habit)
                saved == saveDataScript(store, journalEntries, pushed, now, ok1, ok2)
            IN  /\ habits' = pushed
                /\ store' = saved.store
                /\ loading' = loading \cup {"addHabitBtn"}
                /\ IF saved.success
                   THEN /\ shownHabits' = renderHabits(pushed, "all")
                        /\ shownEntries' = renderJournalEntries(journalEntries, filters.mood, filters.sort)
                        /\ stats' = updateStats(journalEntries, pushed, now)
                        /\ timers' = timers \cup {"habitAdded"}
                   ELSE UNCHANGED <<shownHabits, shownEntries, stats, timers>>
                /\ UNCHANGED notification
                /\ last' = WithInput(Hist("addHabit", IF saved.success THEN "ok" ELSE "threw",
                                          ~saved.success, habit.id, JsonNull), "", text)
    /\ UNCHANGED <<variant, journalEntries, now, nextUuid, importing>>
    /\ KeepExport
    /\ UNCHANGED filterVars

\* ------------------------------------------------------------------ toggle, delete
\* Array.prototype.find: the index of the first habit with the id, 0 if none.
FirstIndex(hs, id) ==
    IF \E k \in 1..Len(hs) : hs[k].id = id
    THEN CHOOSE k \in 1..Len(hs) :
            /\ hs[k].id = id
            /\ \A j \in 1..(k - 1) : hs[j].id # id
    ELSE 0

\* state.habits.filter(h => h.id !== id)
WithoutId(hs, id) == LET Keep(h) == h.id # id IN SelectSeq(hs, Keep)

\* app.toggleHabit(id), called by the change listener of a rendered checkbox;
\* a checkbox rendered for a completed habit is disabled. The code is the same
\* in both variants; saveData returns false in "part" (after showing its own
\* error notification) and throws in "script".
ToggleHabit(i, ok1, ok2) ==
    /\ EnvStep
    /\ i \in 1..Len(shownHabits)
    /\ ~shownHabits[i].completed
    /\ LET id == shownHabits[i].id
           k == FirstIndex(habits, id)
       IN  IF k = 0
           THEN /\ last' = Hist("toggle", "noop", FALSE, id, JsonNull)
                /\ UNCHANGED <<habits, store, notification, shownHabits, shownEntries, stats>>
           ELSE LET toggled == [habits EXCEPT ![k].completed = ~habits[k].completed]
                    saved == IF variant = "part"
                             THEN saveDataPart(store, journalEntries, toggled, now, ok1, ok2)
                             ELSE saveDataScript(store, journalEntries, toggled, now, ok1, ok2)
                IN  /\ habits' = toggled
                    /\ store' = saved.store
                    /\ IF variant = "script" /\ ~saved.success
                       THEN UNCHANGED <<notification, shownHabits, shownEntries, stats>>
                       ELSE /\ shownHabits' = renderHabits(toggled, "all")
                            /\ shownEntries' = renderJournalEntries(journalEntries, filters.mood, filters.sort)
                            /\ stats' = updateStats(journalEntries, toggled, now)
                            /\ notification' =
                                 IF toggled[k].completed
                                 THEN Note("success", "Habit completed! Great job!")
                                 ELSE IF ~saved.success
                                      THEN Note("danger", "Error saving data to storage")
                                      ELSE notification
                    /\ last' = Hist("toggle",
                                    IF saved.success THEN "ok"
                                    ELSE IF variant = "part" THEN "saveFailed" ELSE "threw",
                                    ~saved.success, id, JsonNull)
    /\ UNCHANGED <<variant, journalEntries, now, nextUuid, loading, timers, importing>>
    /\ KeepExport
    /\ UNCHANGED filterVars

\* if (!confirm(...)) return: the handler goes on when the user's answer to
\* the prompt is yes.
ConfirmIgnored(answer) == TRUE

confirm(answer) == answer

\* app.deleteHabit(id), called by the click listener of a rendered delete
\* button; `confirmed` is the answer to the confirm() prompt. The history
\* records a declined prompt by the answer given.
DeleteHabit(i, confirmed, ok1, ok2) ==
    /\ EnvStep
    /\ i \in 1..Len(shownHabits)
    /\ LET id == shownHabits[i].id
           k == FirstIndex(habits, id)
       IN  IF k = 0 \/ ~confirm(confirmed)
           THEN /\ last' = Hist("delete", IF k = 0 THEN "noop" ELSE "declined",
                                FALSE, id, JsonNull)
                /\ UNCHANGED <<habits, store, notification, shownHabits, shownEntries, stats>>
           ELSE LET filtered == WithoutId(habits, id)
                    saved == IF variant = "part"
                             THEN saveDataPart(store, journalEntries, filtered, now, ok1, ok2)
                             ELSE saveDataScript(store, journalEntries, filtered, now, ok1, ok2)
                IN  /\ habits' = filtered
                    /\ store' = saved.store
                    /\ IF variant = "script" /\ ~saved.success
                       THEN UNCHANGED <<notification, shownHabits, shownEntries, stats>>
                       ELSE /\ shownHabits' = renderHabits(filtered, "all")
                            /\ shownEntries' = renderJournalEntries(journalEntries, filters.mood, filters.sort)
                            /\ stats' = updateStats(journalEntries, filtered, now)
                            /\ notification' = Note("info", "Habit deleted")
                    /\ last' = Hist("delete",
                                    IF ~confirmed THEN "declined"
                                    ELSE IF saved.success THEN "ok"
                                    ELSE IF variant = "part" THEN "saveFailed" ELSE "threw",
                                    ~saved.success, id, JsonNull)
    /\ UNCHANGED <<variant, journalEntries, now, nextUuid, loading, timers, importing>>
    /\ KeepExport
    /\ UNCHANGED filterVars

\* ------------------------------------------------------------------ clear, export
\* app.clearAllData: after the confirm() prompt, storage.clearAll removes the
\* item (removeItem does not throw) and both collections are emptied.
ClearAllData(confirmed) ==
    /\ EnvStep
    /\ IF confirm(confirmed)
       THEN /\ store' = Absent
            /\ journalEntries' = <<>>
            /\ habits' = <<>>
            /\ shownHabits' = renderHabits(<<>>, "all")
            /\ shownEntries' = renderJournalEntries(<<>>, filters.mood, filters.sort)
            /\ stats' = updateStats(<<>>, <<>>, now)
            /\ notification' = Note("info", "All data has been cleared")
            /\ last' = Hist("clear", IF confirmed THEN "ok" ELSE "declined",
                            FALSE, 0, JsonNull)
       ELSE /\ last' = Hist("clear", "declined", FALSE, 0, JsonNull)
            /\ UNCHANGED <<store, journalEntries, habits, shownHabits, shownEntries, stats, notification>>
    /\ UNCHANGED <<variant, now, nextUuid, loading, timers, importing>>
    /\ KeepExport
    /\ UNCHANGED filterVars

\* storage.exportData: the download holds what getData() returns from the
\* store. `exported` also remembers the in-memory collections of that moment.
ExportData ==
    /\ EnvStep
    /\ exported' = [has |-> TRUE, file |-> exportFile(store),
                    journalEntries |-> journalEntries, habits |-> habits]
    /\ last' = Hist("export", "ok", FALSE, 0, exportFile(store))
    /\ UNCHANGED <<variant, journalEntries, habits, store, now, nextUuid, notification,
                   loading, timers, shownHabits, shownEntries, stats, importing>>
    /\ UNCHANGED filterVars

\* ------------------------------------------------------------------ import
\* app.handleImport up to the await: the file input's change event. The import
\* button opens the file dialog, so a button in loading state cannot start one.
\* The user picks one of ImportFiles or the file exported last.
HandleImport(file, fromExport) ==
    /\ EnvStep
    /\ "importBtn" \notin loading
    /\ ~importing.has
    /\ IF fromExport THEN exported.has /\ file = exported.file
       ELSE file \in ImportFiles \/ (file = FileNotArray /\ variant = "part")
    /\ importing' = [has |-> TRUE, file |-> file, fromExport |-> fromExport,
                     expJ |-> IF fromExport THEN exported.journalEntries ELSE <<>>,
                     expH |-> IF fromExport THEN exported.habits ELSE <<>>]
    /\ loading' = loading \cup {"importBtn"}
    /\ last' = Hist("importStart", "ok", FALSE, 0, file)
    /\ UNCHANGED <<variant, journalEntries, habits, store, now, nextUuid, notification,
                   timers, shownHabits, shownEntries, stats, exported>>
    /\ UNCHANGED filterVars

\* data.journalEntries || [] and data.habits || []
FileEntries(file) == IF file.data.hasJ THEN file.data.journalEntries ELSE <<>>

MergeMissingHabits(file) == IF file.data.hasH THEN file.data.habits ELSE habits

FileHabits(file) == IF file.data.hasH THEN file.data.habits ELSE <<>>

\* reader.onload and the rest of app.handleImport, variant "part":
\* storage.importData ignores what setData returns.
ImportLoadPart(ok1) ==
    /\ Background
    /\ variant = "part"
    /\ importing.has
    /\ LET file == importing.file
       IN  IF importAccepts(file) /\ ~isArray(FileEntries(file))
           THEN \* renderUI: the habits are rendered, ui.renderJournalEntries
                \* empties the log and throws at [...entries]; handleImport
                \* catches it.
                /\ store' = IF ok1 THEN setData(file.data, now) ELSE store
                /\ journalEntries' = FileEntries(file)
                /\ habits' = FileHabits(file)
                /\ shownHabits' = renderHabits(FileHabits(file), "all")
                /\ shownEntries' = <<>>
                /\ notification' =
                     Note("danger", "Failed to import data. Please check the file format.")
                /\ last' = Hist("import", "renderThrew", ~ok1, 0, file)
                /\ UNCHANGED stats
           ELSE IF importAccepts(file)
           THEN /\ store' = IF ok1 THEN setData(file.data, now) ELSE store
                /\ journalEntries' = FileEntries(file)
                /\ habits' = FileHabits(file)
                /\ shownHabits' = renderHabits(FileHabits(file), "all")
                /\ shownEntries' = renderJournalEntries(FileEntries(file), filters.mood, filters.sort)
                /\ stats' = updateStats(FileEntries(file), FileHabits(file), now)
                /\ notification' = Note("success", "Data imported successfully!")
                /\ last' = Hist("import", "ok", ~ok1, 0, file)
           ELSE /\ notification' =
                     Note("danger", "Failed to import data. Please check the file format.")
                /\ last' = Hist("import", "formatError", FALSE, 0, file)
                /\ UNCHANGED <<store, journalEntries, habits, shownHabits, shownEntries, stats>>
    /\ importing' = NoFile
    /\ loading' = loading \ {"importBtn"}
    /\ UNCHANGED <<variant, now, nextUuid, timers>>
    /\ KeepExport
    /\ UNCHANGED filterVars

\* The same, variant "script": a write rejected inside storage.importData
\* rejects the promise; handleImport then calls saveData, whose exception is
\* caught by handleImport's own catch after the collections were replaced.
ImportLoadScript(ok1, ok2, ok3) ==
    /\ Background
    /\ variant = "script"
    /\ importing.has
    /\ LET file == importing.file
           saved == saveDataScript(setData(file.data, now), FileEntries(file),
                                   FileHabits(file), now, ok2, ok3)
       IN  IF ~importAccepts(file)
           THEN /\ notification' =
                     Note("danger", "Failed to import data. Please check the file format.")
                /\ last' = Hist("import", "formatError", FALSE, 0, file)
                /\ UNCHANGED <<store, journalEntries, habits, shownHabits, shownEntries, stats>>
           ELSE IF ~ok1
           THEN /\ notification' =
                     Note("danger", "Failed to import data. Please check the file format.")
                /\ last' = Hist("import", "threw", TRUE, 0, file)
                /\ UNCHANGED <<store, journalEntries, habits, shownHabits, shownEntries, stats>>
           ELSE /\ store' = saved.store
                /\ journalEntries' = FileEntries(file)
                /\ habits' = FileHabits(file)
                /\ IF saved.success
                   THEN /\ shownHabits' = renderHabits(FileHabits(file), "all")
                        /\ shownEntries' = renderJournalEntries(FileEntries(file), filters.mood, filters.sort)
                        /\ stats' = updateStats(FileEntries(file), FileHabits(file), now)
                        /\ notification' = Note("success", "Data imported successfully!")
                   ELSE /\ notification' =
                             Note("danger", "Failed to import data. Please check the file format.")
                        /\ UNCHANGED <<shownHabits, shownEntries, stats>>
                /\ last' = Hist("import", IF saved.success THEN "ok" ELSE "threw",
                                ~saved.success, 0, file)
    /\ importing' = NoFile
    /\ loading' = loading \ {"importBtn"}
    /\ UNCHANGED <<variant, now, nextUuid, timers>>
    /\ KeepExport
    /\ UNCHANGED filterVars

\* reader.onerror: the file could not be read.
ImportReadError ==
    /\ Background
    /\ importing.has
    /\ notification' = Note("danger", "Failed to import data. Please check the file format.")
    /\ importing' = NoFile
    /\ loading' = loading \ {"importBtn"}
    /\ last' = Hist("import", "readError", FALSE, 0, importing.file)
    /\ UNCHANGED <<variant, journalEntries, habits, store, now, nextUuid, timers,
                   shownHabits, shownEntries, stats, exported>>
    /\ UNCHANGED filterVars

\* ------------------------------------------------------------------ timers, clock
\* A setTimeout callback runs: the welcome notification of app.init, or the
\* deferred success notification of variant "script" (which also clears the
\* button's loading state). Callbacks of one kind pending together are one
\* element of `timers`: their effects are the same.
TimerFires(k) ==
    /\ Background
    /\ k \in timers
    /\ timers' = timers \ {k}
    /\ notification' =
         IF k = "welcome"
         THEN Note("info", "Welcome! Start by adding a journal entry or habit.")
         ELSE IF k = "entrySaved"
              THEN Note("success", "Journal entry saved successfully!")
              ELSE Note("success", "Habit added successfully!")
    /\ loading' =
         IF k = "entrySaved" THEN loading \ {"submitBtn"}
         ELSE IF k = "habitAdded" THEN loading \ {"addHabitBtn"}
         ELSE loading
    /\ last' = Idle("timer")
    /\ UNCHANGED <<variant, journalEntries, habits, store, now, nextUuid, shownHabits, shownEntries,
                   stats, importing, exported>>
    /\ UNCHANGED filterVars

\* The millisecond clock advances.
Tick ==
    /\ EnvStep
    /\ now' = now + 1
    /\ last' = Idle("tick")
    /\ UNCHANGED <<variant, journalEntries, habits, store, nextUuid, notification, loading,
                   timers, shownHabits, shownEntries, stats, importing, exported>>
    /\ UNCHANGED filterVars

\* ------------------------------------------------------------------ specification
\* In variant "script" a write is attempted only when the one before it was
\* accepted: the outcomes of a write that is not attempted are not told apart.
Attempted(okBefore) == IF okBefore THEN BOOLEAN ELSE {FALSE}

Next ==
    \/ \E mood \in MoodInputs, journal \in JournalInputs, ok1, ok2 \in BOOLEAN :
          HandleMoodSubmitPart(mood, journal, ok1, ok2)
    \/ \E mood \in MoodInputs, journal \in JournalInputs, ok1, ok2 \in BOOLEAN :
          HandleMoodSubmitScript(mood, journal, ok1, ok2)
    \/ \E text \in HabitInputs, ok1, ok2 \in BOOLEAN : AddHabitPart(text, ok1, ok2)
    \/ \E text \in HabitInputs, ok1, ok2 \in BOOLEAN : AddHabitScript(text, ok1, ok2)
    \/ \E i \in 1..Len(shownHabits), ok1, ok2 \in BOOLEAN : ToggleHabit(i, ok1, ok2)
    \/ \E i \in 1..Len(shownHabits), confirmed, ok1, ok2 \in BOOLEAN :
          DeleteHabit(i, confirmed, ok1, ok2)
    \/ \E confirmed \in BOOLEAN : ClearAllData(confirmed)
    \/ ExportData
    \/ \E file \in ImportFiles : HandleImport(file, FALSE)
    \/ HandleImport(exported.file, TRUE)
    \/ \E ok1 \in BOOLEAN : ImportLoadPart(ok1)
    \/ \E ok1 \in BOOLEAN : \E ok2 \in Attempted(ok1) : \E ok3 \in Attempted(ok2) :
          ImportLoadScript(ok1, ok2, ok3)
    \/ ImportReadError
    \/ \E k \in {"welcome", "entrySaved", "habitAdded"} : TimerFires(k)
    \/ Tick
    \/ Reload

Spec == Init /\ [][Next]_vars

\* The runs in which localStorage accepts every write: the same handlers, no
\* setItem throwing, and one more file to import, FileNotArray. Once a
\* collection in memory is no array, the handlers that read it (they throw
\* in renderUI or at unshift) are not followed; clearing, exporting,
\* importing and reopening the page are.
ArraysInMemory == isArray(journalEntries) /\ isArray(habits)

NextAccepted ==
    \/ ArraysInMemory /\ \E mood \in MoodInputs, journal \in JournalInputs :
          HandleMoodSubmitPart(mood, journal, TRUE, TRUE)
    \/ \E mood \in MoodInputs, journal \in JournalInputs :
          HandleMoodSubmitScript(mood, journal, TRUE, TRUE)
    \/ ArraysInMemory /\ \E text \in HabitInputs : AddHabitPart(text, TRUE, TRUE)
    \/ \E text \in HabitInputs : AddHabitScript(text, TRUE, TRUE)
    \/ ArraysInMemory /\ \E i \in 1..Len(shownHabits) : ToggleHabit(i, TRUE, TRUE)
    \/ ArraysInMemory /\ \E i \in 1..Len(shownHabits), confirmed \in BOOLEAN :
          DeleteHabit(i, confirmed, TRUE, TRUE)
    \/ \E confirmed \in BOOLEAN : ClearAllData(confirmed)
    \/ ExportData
    \/ \E file \in ImportFiles \cup {FileNotArray} : HandleImport(file, FALSE)
    \/ HandleImport(exported.file, TRUE)
    \/ ImportLoadPart(TRUE)
    \/ ImportLoadScript(TRUE, TRUE, TRUE)
    \/ ImportReadError
    \/ \E k \in {"welcome", "entrySaved", "habitAdded"} : TimerFires(k)
    \/ Tick
    \/ Reload

SpecAccepted == Init /\ [][NextAccepted]_vars

\* ------------------------------------------------------------------ statistics alone
\* ui.updateStats applied to collections drawn from bounded sets: entries made
\* on the days 0..MaxStatDay, none of them later than the clock.
StatTimes == 0..((MaxStatDay + 1) * TicksPerDay - 1)

StatEntry(ts) == [id |-> ts, mood |-> "Happy", journal |-> <<>>, timestamp |-> ts]

StatEntryLists ==
    UNION { [1..n -> { StatEntry(ts) : ts \in StatTimes }] : n \in 0..MaxStatEntries }

InitStats ==
    /\ variant \in {"part", "script"}
    /\ now \in StatTimes
    /\ journalEntries \in StatEntryLists
    /\ \A i \in 1..Len(journalEntries) : journalEntries[i].timestamp <= now
    /\ habits = <<>>
    /\ store = Absent
    /\ nextUuid = 0
    /\ notification = NoNote
    /\ loading = {}
    /\ timers = {}
    /\ shownHabits = <<>>
    /\ shownEntries = <<>>
    /\ stats = Unrendered
    /\ importing = NoFile
    /\ exported = NoExport
    /\ ops = 0
    /\ last = Idle("init")
    /\ FiltersAtStart

\* app.renderUI, its last call: ui.updateStats(state.journalEntries, state.habits).
RenderStats ==
    /\ ~stats.rendered
    /\ stats' = updateStats(journalEntries, habits, now)
    /\ UNCHANGED <<variant, journalEntries, habits, store, now, nextUuid, notification,
                   loading, timers, shownHabits, shownEntries, importing, exported, ops, last>>
    /\ UNCHANGED filterVars

NextStats == RenderStats

SpecStats == InitStats /\ [][NextStats]_vars

\* ------------------------------------------------------------------ loading alone
\* app.init applied to whatever localStorage may hold when the page is opened:
\* nothing, text that does not parse, the text null, or an object with or
\* without a version (supported or not), with or without data, each
\* collection missing, empty or holding one entity.
LoadStores ==
    {Absent, JsonGarbage, JsonNull} \cup
    { JsonObj(hv, IF hv THEN v ELSE 0, 0, hd,
              IF hd THEN Data(hj, IF hj THEN J ELSE <<>>, hh, IF hh THEN H ELSE <<>>)
              ELSE NoData) :
          hv \in BOOLEAN, v \in {STORAGE_VERSION, STORAGE_VERSION + 1},
          hd \in BOOLEAN, hj \in BOOLEAN, hh \in BOOLEAN,
          J \in {<<>>, <<OldEntry>>}, H \in {<<>>, <<OldHabit>>} }

\* The script has not run yet: `state` holds its initial empty collections.
InitLoad ==
    /\ variant \in {"part", "script"}
    /\ store \in LoadStores
    /\ now = 0
    /\ nextUuid = 0
    /\ journalEntries = <<>>
    /\ habits = <<>>
    /\ timers = {}
    /\ shownHabits = <<>>
    /\ shownEntries = <<>>
    /\ stats = Unrendered
    /\ notification = NoNote
    /\ loading = {}
    /\ importing = NoFile
    /\ exported = NoExport
    /\ ops = 0
    /\ last = Idle("closed")
    /\ FiltersAtStart

NextLoad == Reload

SpecLoad == InitLoad /\ [][NextLoad]_vars

\* ------------------------------------------------------------------ filters alone
\* The three filter selects, the debounced listeners and the clock, on a page
\* opened on the document of an earlier session. Time is the millisecond
\* clock `now`. A timeout runs when it is due: the clock does not pass a due
\* timeout, and a due timeout runs before any event of the same instant.
NoneDue == \A c \in DebouncedControls : \A due \in pending[c] : due > now

InitFilters ==
    /\ variant \in {"part", "script"}
    /\ store = OldDocument
    /\ now = 0
    /\ nextUuid = 0
    /\ journalEntries = Boot(store, now).journalEntries
    /\ habits = Boot(store, now).habits
    /\ timers = Boot(store, now).timers
    /\ shownHabits = Boot(store, now).shownHabits
    /\ shownEntries = Boot(store, now).shownEntries
    /\ stats = Boot(store, now).stats
    /\ notification = NoNote
    /\ loading = {}
    /\ importing = NoFile
    /\ exported = NoExport
    /\ ops = 0
    /\ last = Idle("init")
    /\ FiltersAtStart

\* A change event of a debounced select c, the user having chosen v: the
\* timeout of the listener is cleared and set again.
ChangeDebounced(c, v) ==
    /\ NoneDue
    /\ v # dropdowns[c]
    /\ now + DEBOUNCE_DELAY <= MaxClock
    /\ dropdowns' = [dropdowns EXCEPT ![c] = v]
    /\ pending' = [pending EXCEPT ![c] = debounce(pending[c], now)]
    /\ burst' = [burst EXCEPT ![c] =
                   IF @.lastAt = -1 \/ now - @.lastAt >= DEBOUNCE_DELAY
                   THEN [lastAt |-> now, runs |-> 0, firedAt |-> -1, superseded |-> FALSE,
                         value |-> v]
                   ELSE [@ EXCEPT !.lastAt = now, !.value = v,
                                  !.superseded = @ \/ pending[c] # {}]]
    /\ last' = Idle(c)
    /\ UNCHANGED <<variant, journalEntries, habits, store, now, nextUuid, notification,
                   loading, timers, shownHabits, shownEntries, stats, importing, exported, ops, filters>>

ChangeMoodFilter(v) == ChangeDebounced("moodFilter", v)

ChangeSortOrder(v) == ChangeDebounced("sortOrder", v)

\* The change listener of the habit filter, not debounced:
\* state.filters.habitStatus = e.target.value, then renderUI.
ChangeHabitFilter(v) ==
    /\ NoneDue
    /\ v # dropdowns.habitFilter
    /\ filters' = [filters EXCEPT !.habitStatus = v]
    /\ dropdowns' = DropdownsOf(filters')
    /\ shownHabits' = renderHabits(habits, filters'.habitStatus)
    /\ shownEntries' = renderJournalEntries(journalEntries, filters'.mood, filters'.sort)
    /\ stats' = updateStats(journalEntries, habits, now)
    /\ last' = Idle("habitFilter")
    /\ UNCHANGED <<variant, journalEntries, habits, store, now, nextUuid, notification,
                   loading, timers, importing, exported, ops, pending, burst>>

\* `later` of the listener of select c runs: the callback assigns
\* e.target.value, the select's value of this moment, and calls renderUI.
DebouncedFires(c) ==
    /\ \E due \in pending[c] :
          /\ due <= now
          /\ pending' = [pending EXCEPT ![c] = @ \ {due}]
    /\ filters' = [filters EXCEPT ![FilterKey(c)] = dropdowns[c]]
    /\ dropdowns' = DropdownsOf(filters')
    /\ shownHabits' = renderHabits(habits, filters'.habitStatus)
    /\ shownEntries' = renderJournalEntries(journalEntries, filters'.mood, filters'.sort)
    /\ stats' = updateStats(journalEntries, habits, now)
    /\ burst' = [burst EXCEPT ![c].runs = @ + 1, ![c].firedAt = now]
    /\ last' = Idle("debounced")
    /\ UNCHANGED <<variant, journalEntries, habits, store, now, nextUuid, notification,
                   loading, timers, importing, exported, ops>>

\* The clock moves on by ClockStep, or to the next due time if that is sooner.
NextDue == UNION { pending[c] : c \in DebouncedControls }

Advance ==
    /\ NoneDue
    /\ LET target == IF \E due \in NextDue : due < now + ClockStep
                      THEN CHOOSE due \in NextDue : \A d \in NextDue : due <= d
                      ELSE now + ClockStep
       IN  /\ target <= MaxClock
           /\ now' = target
    /\ last' = Idle("tick")
    /\ UNCHANGED <<variant, journalEntries, habits, store, nextUuid, notification, loading,
                   timers, shownHabits, shownEntries, stats, importing, exported, ops, filterVars>>

NextFilters ==
    \/ \E v \in MoodFilterOptions : ChangeMoodFilter(v)
    \/ \E v \in SortOrderOptions : ChangeSortOrder(v)
    \/ \E v \in HabitFilterOptions : ChangeHabitFilter(v)
    \/ \E c \in DebouncedControls : DebouncedFires(c)
    \/ Advance

SpecFilters == InitFilters /\ [][NextFilters]_vars

\* ------------------------------------------------------------------ completion rate alone
\* ui.updateStats applied to habit lists of every length up to MaxRateHabits
\* with every number of completed habits; which habits are the completed ones
\* does not enter the rate.
RateHabit(i, done) == [id |-> i, text |-> <<>>, completed |-> done, createdAt |-> 0]

RateHabits(c, n) == [i \in 1..n |-> RateHabit(i, i <= c)]

InitRate ==
    /\ variant \in {"part", "script"}
    /\ \E n \in 0..MaxRateHabits : \E c \in 0..n : habits = RateHabits(c, n)
    /\ journalEntries = <<>>
    /\ now = 0
    /\ store = Absent
    /\ nextUuid = 0
    /\ notification = NoNote
    /\ loading = {}
    /\ timers = {}
    /\ shownHabits = <<>>
    /\ shownEntries = <<>>
    /\ stats = Unrendered
    /\ importing = NoFile
    /\ exported = NoExport
    /\ ops = 0
    /\ last = Idle("init")
    /\ FiltersAtStart

SpecRate == InitRate /\ [][NextStats]_vars

\* The mood average: journals of up to MaxAverageEntries entries, the first
\* `a` of one mood and the rest of another, among them a label no weight is
\* given for, under every mood filter and sort order the selects offer.
MoodLabels ==
    {"Sad", "Stressed", "Anxious", "Neutral", "Grateful", "Happy", "Excited", "Calm"}

AverageEntry(i, mood) == [id |-> i, mood |-> mood, journal |-> <<>>, timestamp |-> i]

AverageEntries(a, n, first, rest) ==
    [i \in 1..n |-> AverageEntry(i, IF i <= a THEN first ELSE rest)]

InitAverage ==
    /\ variant \in {"part", "script"}
    /\ \E n \in 0..MaxAverageEntries : \E a \in 0..n :
          \E first \in MoodLabels : \E rest \in {"Sad", "Stressed"} :
              journalEntries = AverageEntries(a, n, first, rest)
    /\ habits = <<>>
    /\ now = MaxAverageEntries + 1
    /\ store = Absent
    /\ nextUuid = 0
    /\ notification = NoNote
    /\ loading = {}
    /\ timers = {}
    /\ shownHabits = <<>>
    /\ shownEntries = <<>>
    /\ stats = Unrendered
    /\ importing = NoFile
    /\ exported = NoExport
    /\ ops = 0
    /\ last = Idle("init")
    /\ \E m \in MoodFilterOptions : \E o \in SortOrderOptions :
          filters = [InitialFilters EXCEPT !.mood = m, !.sort = o]
    /\ dropdowns = DropdownsOf(filters)
    /\ pending = [c \in DebouncedControls |-> {}]
    /\ burst = [c \in DebouncedControls |-> NoBurst]

SpecAverage == InitAverage /\ [][NextStats]_vars

\* ------------------------------------------------------------------ rendering alone
\* app.renderUI applied to collections and filters drawn from bounded sets:
\* up to MaxShownEntries entries with moods and timestamps that repeat, in any
\* order (an imported file gives any), up to MaxShownHabits habits, and every
\* value the three selects offer.
ShownTimes == 0..1

ShownMoods == {"Happy", "Sad"}

ShownEntryLists ==
    UNION { { [i \in 1..n |-> [id |-> i, mood |-> moods[i], journal |-> <<>>,
                               timestamp |-> times[i]]] :
              moods \in [1..n -> ShownMoods], times \in [1..n -> ShownTimes] } :
            n \in 0..MaxShownEntries }

ShownHabitLists ==
    UNION { { [i \in 1..n |-> [id |-> i, text |-> <<>>, completed |-> done[i],
                               createdAt |-> 0]] :
              done \in [1..n -> BOOLEAN] } :
            n \in 0..MaxShownHabits }

InitRender ==
    /\ variant \in {"part", "script"}
    /\ journalEntries \in ShownEntryLists
    /\ habits \in ShownHabitLists
    /\ now = 2
    /\ store = Absent
    /\ nextUuid = 0
    /\ notification = NoNote
    /\ loading = {}
    /\ timers = {}
    /\ shownHabits = <<>>
    /\ shownEntries = <<>>
    /\ stats = Unrendered
    /\ importing = NoFile
    /\ exported = NoExport
    /\ ops = 0
    /\ last = Idle("init")
    /\ \E h \in HabitFilterOptions : \E m \in MoodFilterOptions : \E o \in SortOrderOptions :
          filters = [habitStatus |-> h, mood |-> m, sort |-> o]
    /\ dropdowns = DropdownsOf(filters)
    /\ pending = [c \in DebouncedControls |-> {}]
    /\ burst = [c \in DebouncedControls |-> NoBurst]

\* app.renderUI: the selects are set from state.filters, then ui.renderHabits,
\* ui.renderJournalEntries and ui.updateStats.
RenderUI ==
    /\ ~stats.rendered
    /\ dropdowns' = DropdownsOf(filters)
    /\ shownHabits' = renderHabits(habits, filters.habitStatus)
    /\ shownEntries' = renderJournalEntries(journalEntries, filters.mood, filters.sort)
    /\ stats' = updateStats(journalEntries, habits, now)
    /\ last' = Hist("render", "ok", FALSE, 0, JsonNull)
    /\ UNCHANGED <<variant, journalEntries, habits, store, now, nextUuid, notification,
                   loading, timers, importing, exported, ops, filters, pending, burst>>

NextRender == RenderUI

SpecRender == InitRender /\ [][NextRender]_vars

(***************************************************************************)
(* Properties.                                                             *)
(***************************************************************************)
IsSubmit == last.op = "submit"

IsAdd == last.op \in {"submit", "addHabit"}

\* A handler that wrote to the store and had a write rejected.
WriteRejected == last.rejected

\* The store holds a supported document with both collections, equal to the
\* in-memory ones.
StoreIsSnapshot ==
    /\ store.kind = "obj"
    /\ store.hasVersion /\ store.version = STORAGE_VERSION
    /\ store.hasData
    /\ store.data.hasJ /\ store.data.journalEntries = journalEntries
    /\ store.data.hasH /\ store.data.habits = habits

RemoveAt(s, k) == SubSeq(s, 1, k - 1) \o SubSeq(s, k + 1, Len(s))

\* C1: when the store rejects a write during entry submission, journalEntries
\* is, once the handler is over, the list it was before the submission.
SubmitRollsBack ==
    (IsSubmit /\ WriteRejected) => journalEntries = last.preJ

\* C1, variant "part" alone: there the rollback (shift) restores the list.
SubmitRollsBackPart ==
    (variant = "part" /\ IsSubmit /\ WriteRejected) => journalEntries = last.preJ

\* C2: when add entry or add habit ends in a reported persistence failure,
\* loading the store yields the collections it yielded before the action.
NoPartialSuccess ==
    (IsAdd /\ last.result = "saveFailed") =>
        /\ getJournalEntries(store) = getJournalEntries(last.preStore)
        /\ getHabits(store) = getHabits(last.preStore)

\* C3: when the store rejects a write during toggleHabit or a confirmed
\* deleteHabit, the habits list afterwards equals the list before.
ToggleDeleteRollBack ==
    (last.op \in {"toggle", "delete"} /\ WriteRejected) => habits = last.preH

\* C4: the streak shown is the number of consecutive calendar days, counted
\* back from today, that each hold at least one entry.
RECURSIVE DayStreak(_, _)
DayStreak(entries, day) ==
    IF \E i \in 1..Len(entries) : Day(entries[i].timestamp) = day
    THEN 1 + DayStreak(entries, day - 1)
    ELSE 0

StreakCountsDays ==
    stats.rendered => stats.currentStreak = DayStreak(journalEntries, Day(now))

\* C4, the part the code meets: the two agree when no day holds two entries.
OneEntryPerDay ==
    \A i, j \in 1..Len(journalEntries) :
        i # j => Day(journalEntries[i].timestamp) # Day(journalEntries[j].timestamp)

StreakCountsDaysOnePerDay ==
    (stats.rendered /\ OneEntryPerDay) =>
        stats.currentStreak = DayStreak(journalEntries, Day(now))

\* C5: importing the file just exported succeeds and leaves in memory the
\* collections that were in memory at the moment of the export.
ExportImportRoundTrip ==
    (last.op = "import" /\ last.fromExport /\ last.result # "readError" /\ ~WriteRejected) =>
        /\ last.result = "ok"
        /\ journalEntries = last.expJ
        /\ habits = last.expH

\* C6: an import file that does not parse, or has no version, or has no data,
\* is refused with an error notification, and neither the stored document nor
\* the in-memory collections change (choosing the file changes nothing either).
BadFormat(file) ==
    \/ file.kind \in {"garbage", "null"}
    \/ file.kind = "obj" /\ ~file.hasVersion
    \/ file.kind = "obj" /\ ~file.hasData

Untouched ==
    /\ journalEntries = last.preJ
    /\ habits = last.preH
    /\ store = last.preStore

ImportFormatRejection ==
    /\ (last.op = "import" /\ BadFormat(last.file)) =>
          /\ last.result \in {"formatError", "readError"}
          /\ notification.type = "danger"
          /\ Untouched
    /\ last.op = "importStart" => Untouched

\* C6 witness: a file without version was refused while the page held data.
ImportFormatRejectionWitness ==
    /\ last.op = "import" /\ last.result = "formatError"
    /\ last.file.kind = "obj" /\ ~last.file.hasVersion /\ last.file.hasData
    /\ last.preJ # <<>>
    /\ last.preStore.kind = "obj"

\* C7: a confirmed, persisted deletion removes exactly one habit, the one
\* with the id of the button used; the others keep their order and fields,
\* and journalEntries is unchanged.
DeleteRemovesExactlyOne ==
    (last.op = "delete" /\ last.result = "ok") =>
        /\ \E k \in 1..Len(last.preH) :
              /\ last.preH[k].id = last.id
              /\ habits = RemoveAt(last.preH, k)
        /\ journalEntries = last.preJ

\* C8: no two journal entries share an id and no two habits share an id.
IdsUnique ==
    /\ \A i, j \in 1..Len(journalEntries) :
          i # j => journalEntries[i].id # journalEntries[j].id
    /\ \A i, j \in 1..Len(habits) : i # j => habits[i].id # habits[j].id

\* C8, variant "part" alone, generateId taken never to repeat.
IdsUniquePart == variant = "part" => IdsUnique

\* C9 as stated: after each mutating action that completes with the store
\* accepting the writes, the store holds a supported document whose two
\* collections are present and equal to the in-memory ones.
Completed(opNames) == last.op \in opNames /\ last.result = "ok" /\ ~WriteRejected

FullSnapshotWrite ==
    Completed({"submit", "addHabit", "toggle", "delete", "clear", "import"}) =>
        StoreIsSnapshot

\* C9 as amended: that holds after add entry, add habit, toggle and delete
\* (and after an import in variant "script", which saves again); clear-all
\* leaves no document and two empty collections; an import in variant "part"
\* stores the file's data as it is, a collection missing from the file being
\* missing from the store and empty in memory.
SnapshotWriteAmended ==
    /\ Completed({"submit", "addHabit", "toggle", "delete"}) => StoreIsSnapshot
    /\ Completed({"clear"}) => store = Absent /\ journalEntries = <<>> /\ habits = <<>>
    /\ (Completed({"import"}) /\ variant = "script") => StoreIsSnapshot
    /\ (Completed({"import"}) /\ variant = "part") =>
          /\ store.kind = "obj"
          /\ store.hasVersion /\ store.version = STORAGE_VERSION
          /\ store.hasData /\ store.data = last.file.data
          /\ journalEntries = FileEntries(last.file)
          /\ habits = FileHabits(last.file)

\* C9 witness: a toggle, which changes the habits alone, was persisted while
\* the page held journal entries, and the document holds both collections.
SnapshotWriteWitness ==
    /\ Completed({"toggle"})
    /\ journalEntries # <<>>
    /\ habits # last.preH
    /\ store # last.preStore
    /\ StoreIsSnapshot

\* C10: when a store write is rejected during a mutating action, the
\* notification showing when the action is over is an error notification.
NoSilentFailure ==
    (last.op \in {"submit", "addHabit", "toggle", "delete", "import"} /\ WriteRejected) =>
        notification.type = "danger"

\* C11: a change event of a rendered, enabled checkbox never turns a habit's
\* completed flag from true to false: after toggleHabit every habit that was
\* completed before is still completed.
CompletionNotReversible ==
    last.op = "toggle" =>
        /\ Len(habits) = Len(last.preH)
        /\ \A k \in 1..Len(habits) : last.preH[k].completed => habits[k].completed

\* C11, variant "part" alone: there toggleHabit always renders again, and the
\* ids of generateId are distinct.
CompletionNotReversiblePart == variant = "part" => CompletionNotReversible

\* C12: an accepted submission of mood m and text t puts exactly one entry in
\* front of the entries there were, with mood m, the text t with its markup
\* characters escaped, and a timestamp not earlier than the clock at the
\* start of the submission; the earlier entries and the habits are unchanged.
Escaped(text) ==
    [i \in 1..Len(text) |->
        CASE text[i] = "<" -> "&lt;"
          [] text[i] = ">" -> "&gt;"
          [] text[i] = "&" /\ variant = "script" -> "&amp;"
          [] OTHER -> text[i]]

SubmitCreatesOneEntry ==
    Completed({"submit"}) =>
        /\ Len(journalEntries) = Len(last.preJ) + 1
        /\ Tail(journalEntries) = last.preJ
        /\ habits = last.preH
        /\ journalEntries[1].mood = last.mood
        /\ journalEntries[1].journal = Escaped(last.text)
        /\ journalEntries[1].timestamp >= now

\* C12 witness: an entry with markup in its text was added in front of an
\* earlier entry while the page held a habit.
SubmitCreatesOneEntryWitness ==
    /\ Completed({"submit"})
    /\ last.preJ # <<>>
    /\ last.preH # <<>>
    /\ last.mood = "Happy"
    /\ \E i \in 1..Len(last.text) : last.text[i] = "<"
    /\ Len(journalEntries) = 2

\* C13: a submission with no mood selected, and an added habit whose text is
\* empty or all white space, leave the in-memory collections and the stored
\* item exactly as they were.
IsBlank(text) == \A i \in 1..Len(text) : text[i] = " "

ValidationChangesNothing ==
    /\ (last.op = "submit" /\ last.mood = "") => Untouched
    /\ (last.op = "addHabit" /\ IsBlank(last.text)) => Untouched
    /\ (last.op \in {"submit", "addHabit"} /\ last.result = "invalid") => Untouched

\* C13 witness: a habit text of one space was refused while the page held a
\* habit and a stored document.
ValidationChangesNothingWitness ==
    /\ last.op = "addHabit" /\ last.result = "invalid"
    /\ last.text = <<" ">>
    /\ last.preH # <<>>
    /\ last.preStore.kind = "obj"

\* C14: after the page is opened, getData yields a document exactly when the
\* stored item parses to an object of the supported version; if it does not,
\* both in-memory collections are empty, and if it does, each equals the
\* document's collection (an empty list when the document has none).
Supported(item) ==
    item.kind = "obj" /\ item.hasVersion /\ item.version = STORAGE_VERSION

ForeignVersion(file) ==
    /\ file.kind = "obj"
    /\ file.hasVersion /\ file.version # STORAGE_VERSION
    /\ file.hasData

ForeignImportRejected ==
    (last.op = "import" /\ ForeignVersion(last.file)) => Untouched

\* C16: after an import whose writes the store accepted, the in-memory
\* collections and the collections loaded from the store are exactly the
\* payload's (a collection missing from the payload being empty): nothing
\* that was there before, or was added while the file was being read, is left.
PayloadEntries(file) == IF file.data.hasJ THEN file.data.journalEntries ELSE <<>>

PayloadHabits(file) == IF file.data.hasH THEN file.data.habits ELSE <<>>

ImportReplaces ==
    Completed({"import"}) =>
        /\ journalEntries = PayloadEntries(last.file)
        /\ habits = PayloadHabits(last.file)
        /\ getJournalEntries(store) = PayloadEntries(last.file)
        /\ getHabits(store) = PayloadHabits(last.file)

\* C16 witness: a payload without habits was imported over a page holding a
\* habit that was added while the file was being read.
ImportReplacesWitness ==
    /\ Completed({"import"})
    /\ last.duringRead
    /\ last.preH # <<>>
    /\ last.preH[Len(last.preH)].createdAt >= 0
    /\ ~last.file.data.hasH
    /\ habits = <<>>

\* C17: for each debounced select, while a callback is pending none has run
\* for the current burst of change events, the pending one is due
\* DEBOUNCE_DELAY after the last event and the clock has not passed it; once
\* nothing is pending the callback has run exactly once, DEBOUNCE_DELAY after
\* the last event of the burst.
DebounceCoalesces ==
    \A c \in DebouncedControls :
        /\ burst[c].runs <= 1
        /\ pending[c] # {} =>
              /\ burst[c].runs = 0
              /\ pending[c] = {burst[c].lastAt + DEBOUNCE_DELAY}
              /\ now <= burst[c].lastAt + DEBOUNCE_DELAY
        /\ (pending[c] = {} /\ burst[c].lastAt # -1) =>
              /\ burst[c].runs = 1
              /\ burst[c].firedAt = burst[c].lastAt + DEBOUNCE_DELAY

\* C17 witness: a callback of the mood filter ran after a burst in which a
\* later event superseded a pending callback.
DebounceCoalescesWitness ==
    /\ burst["moodFilter"].superseded
    /\ burst["moodFilter"].runs = 1
    /\ burst["moodFilter"].lastAt > 0
    /\ pending["moodFilter"] = {}
    /\ filters.mood # "all"

\* C18: when the store rejects a write, no exception leaves the handler that
\* issued it, and the handler's button is not left in loading state.
ExceptionEscaped == last.result = "threw" /\ last.op # "import"

SaveFailsSoft ==
    (last.op \in {"submit", "addHabit", "toggle", "delete", "import"} /\ WriteRejected) =>
        /\ ~ExceptionEscaped
        /\ last.op = "submit" => "submitBtn" \notin loading
        /\ last.op = "addHabit" => "addHabitBtn" \notin loading
        /\ last.op = "import" => "importBtn" \notin loading

\* C18, variant "part" alone: there setData catches the exception.
SaveFailsSoftPart == variant = "part" => SaveFailsSoft

\* C19: the completion rate shown is the integer nearest to
\* 100 * completed / total (a tie going up, as Math.round does) when there
\* are habits, and 0 when there are none; it lies in 0..100.
CompletionRateRounds ==
    stats.rendered =>
        /\ stats.completionRate \in 0..100
        /\ stats.completionRate =
              IF Len(habits) = 0 THEN 0
              ELSE (200 * CompletedCount(habits) + Len(habits)) \div (2 * Len(habits))

\* C19, the part the code meets: the rate is in 0..100, it is 0 without
\* habits, and it is that nearest integer whenever 100 * completed / total is
\* not exactly half way between two integers.
CompletionRateRoundsOffTies ==
    stats.rendered =>
        /\ stats.completionRate \in 0..100
        /\ Len(habits) = 0 => stats.completionRate = 0
        /\ (Len(habits) > 0 /\ ~IsTie(CompletedCount(habits), Len(habits))) =>
              stats.completionRate = Nearest(CompletedCount(habits), Len(habits))

\* The doubles give the nearest integer away from ties, as completionRate
\* takes for granted.
DoublesRoundOffTies ==
    (Len(habits) > 0 /\ ~IsTie(CompletedCount(habits), Len(habits))) =>
        DoubleRate(CompletedCount(habits), Len(habits)) =
            Nearest(CompletedCount(habits), Len(habits))

\* C20: the mood average shown is '-' without entries; with entries it is the
\* mean of the weights Sad=1, Stressed=2, Anxious=3, Neutral=4, Grateful=5,
\* Happy=6, Excited=7 (any other label 4) over all entries in memory,
\* rounded to one decimal place, whatever the mood filter and sort order.
ClaimedWeight(mood) ==
    IF mood = "Sad" THEN 1
    ELSE IF mood = "Stressed" THEN 2
    ELSE IF mood = "Anxious" THEN 3
    ELSE IF mood = "Grateful" THEN 5
    ELSE IF mood = "Happy" THEN 6
    ELSE IF mood = "Excited" THEN 7
    ELSE 4

RECURSIVE ClaimedSum(_)
ClaimedSum(entries) ==
    IF entries = <<>> THEN 0
    ELSE ClaimedWeight(Head(entries).mood) + ClaimedSum(Tail(entries))

\* 10 times the mean lies exactly half way between two integers.
MeanAtHalfTenth ==
    /\ journalEntries # <<>>
    /\ (20 * ClaimedSum(journalEntries)) % Len(journalEntries) = 0
    /\ ((20 * ClaimedSum(journalEntries)) \div Len(journalEntries)) % 2 = 1

\* The mean in tenths, a half tenth going up.
MeanInTenths ==
    (20 * ClaimedSum(journalEntries) + Len(journalEntries))
        \div (2 * Len(journalEntries))

MoodAverageIsMean ==
    stats.rendered =>
        IF journalEntries = <<>> THEN stats.moodAverage.dash
        ELSE /\ ~stats.moodAverage.dash
             /\ stats.moodAverage.tenths = MeanInTenths

\* C20, what the code does meet: the same, away from a mean that lies exactly
\* half way between two tenths.
MoodAverageIsMeanOffTies ==
    (stats.rendered /\ ~MeanAtHalfTenth) =>
        IF journalEntries = <<>> THEN stats.moodAverage.dash
        ELSE /\ ~stats.moodAverage.dash
             /\ stats.moodAverage.tenths = MeanInTenths

\* C20, at a half tenth: the code shows the tenth above or the tenth below.
MoodAverageAtTies ==
    (stats.rendered /\ MeanAtHalfTenth) =>
        /\ ~stats.moodAverage.dash
        /\ stats.moodAverage.tenths \in {MeanInTenths - 1, MeanInTenths}

\* C21: when the user declines the prompt of deleteHabit or of clearAllData,
\* the journal entries, the habits and the stored document are what they
\* were before the click and no write to the store was attempted; a deletion
\* or a clearing that changed anything had its prompt accepted.
Declined == last.op \in {"delete", "clear"} /\ last.result = "declined"

DeclinedChangesNothing ==
    Declined =>
        /\ journalEntries = last.preJ
        /\ habits = last.preH
        /\ store = last.preStore
        /\ ~last.rejected

\* A habit that is there and a journal entry are kept by a declined deletion.
DeclinedChangesNothingWitness ==
    /\ last.op = "delete"
    /\ last.result = "declined"
    /\ FirstIndex(habits, last.id) # 0
    /\ journalEntries # <<>>
    /\ store # Absent

\* The same for a declined clearing.
DeclinedClearWitness ==
    /\ last.op = "clear"
    /\ last.result = "declined"
    /\ habits # <<>>
    /\ journalEntries # <<>>
    /\ store # Absent

\* C22: after a rendering, the log shows exactly the entries whose mood is the
\* mood filter (all of them for 'all'), by timestamp descending for 'newest'
\* and ascending for 'oldest', entries of one timestamp in the order they
\* have in memory; the habit list shows exactly the habits that are not
\* completed for 'active', completed for 'completed', all for 'all', in the
\* order they have in memory; and the collections in memory are as before.
Rendered == last.op = "render"

\* The position an entry of the log, or a habit of the list, has in memory.
EntryPosition(id) == CHOOSE k \in 1..Len(journalEntries) : journalEntries[k].id = id

HabitPosition(id) == CHOOSE k \in 1..Len(habits) : habits[k].id = id

MoodMatches(entry) == filters.mood = "all" \/ entry.mood = filters.mood

StatusMatches(habit) ==
    \/ filters.habitStatus = "all"
    \/ filters.habitStatus = "active" /\ ~habit.completed
    \/ filters.habitStatus = "completed" /\ habit.completed

LogShowsMatching ==
    /\ \A i \in 1..Len(shownEntries) :
          /\ \E k \in 1..Len(journalEntries) : journalEntries[k] = shownEntries[i]
          /\ MoodMatches(shownEntries[i])
    /\ \A k \in 1..Len(journalEntries) :
          MoodMatches(journalEntries[k]) =>
              \E i \in 1..Len(shownEntries) : shownEntries[i] = journalEntries[k]
    /\ \A i, j \in 1..Len(shownEntries) : i # j => shownEntries[i].id # shownEntries[j].id

LogInOrder ==
    \A i, j \in 1..Len(shownEntries) :
        i < j =>
            /\ filters.sort = "newest" => shownEntries[i].timestamp >= shownEntries[j].timestamp
            /\ filters.sort = "oldest" => shownEntries[i].timestamp <= shownEntries[j].timestamp
            /\ shownEntries[i].timestamp = shownEntries[j].timestamp =>
                  EntryPosition(shownEntries[i].id) < EntryPosition(shownEntries[j].id)

HabitsShowMatching ==
    /\ \A i \in 1..Len(shownHabits) :
          /\ \E k \in 1..Len(habits) :
                /\ habits[k].id = shownHabits[i].id
                /\ habits[k].completed = shownHabits[i].completed
                /\ StatusMatches(habits[k])
    /\ \A k \in 1..Len(habits) :
          StatusMatches(habits[k]) =>
              \E i \in 1..Len(shownHabits) : shownHabits[i].id = habits[k].id
    /\ \A i, j \in 1..Len(shownHabits) :
          i < j => HabitPosition(shownHabits[i].id) < HabitPosition(shownHabits[j].id)

FilterSortEngine ==
    Rendered =>
        /\ LogShowsMatching
        /\ LogInOrder
        /\ HabitsShowMatching
        /\ journalEntries = last.preJ
        /\ habits = last.preH

\* A log of three entries of which two have one timestamp, shown oldest
\* first, which is not the order in memory, and a habit list that leaves a
\* habit out.
FilterSortEngineWitness ==
    /\ Rendered
    /\ filters.sort = "oldest"
    /\ Len(shownEntries) = 3
    /\ shownEntries # journalEntries
    /\ \E i, j \in 1..3 : i # j /\ shownEntries[i].timestamp = shownEntries[j].timestamp
    /\ shownHabits # <<>>
    /\ Len(shownHabits) < Len(habits)

\* C23: when the user has changed the mood filter or the sort order to a value
\* and has not changed that select since, then once DEBOUNCE_DELAY has passed
\* and the callback has run, state.filters holds that value, whatever else
\* called renderUI in between.
SelectionSettled(c) ==
    /\ burst[c].lastAt # -1
    /\ now >= burst[c].lastAt + DEBOUNCE_DELAY
    /\ pending[c] = {}

SelectionNotLost ==
    \A c \in DebouncedControls :
        SelectionSettled(c) => filters[FilterKey(c)] = burst[c].value

\* C24: when the store has accepted every write, loading from the store (an
\* absent document counting as two empty collections) gives exactly the
\* journal entries and the habits in memory, in every state between two
\* handlers.
MemoryAgreesWithStore ==
    /\ loadData(store).journalEntries = journalEntries
    /\ loadData(store).habits = habits

\* C24, what the code does meet: the same while both collections in memory
\* are arrays.
ArraysAgreeWithStore ==
    ArraysInMemory =>
        /\ loadData(store).journalEntries = journalEntries
        /\ loadData(store).habits = habits

\* C24 for src/script.js, whose loadData takes what the getters return.
MemoryAgreesWithStoreScript ==
    variant = "script" =>
        /\ loadData(store).journalEntries = journalEntries
        /\ loadData(store).habits = habits
====
